---- MODULE Spec2Model ----
(***************************************************************************)
(* Model of the read-only storage adapter of claude2stream                 *)
(* (src/storage.go): the offset codec, the line-bounded range read, the    *)
(* stream index and its glob and walk lookups, the mutating calls, the     *)
(* watch loop with its fan-out to subscribers, and the locking of mu.      *)
(*                                                                         *)
(* Text is a sequence of one-character strings; an int64 is a sign and the *)
(* decimal digits of its magnitude, so that values up to 2^63 keep their   *)
(* true width.                                                             *)
(***************************************************************************)
EXTENDS Integers, Sequences, FiniteSets, TLC

VARIABLES
    zeroOffset,   \* the value of durablestream.ZeroOffset (set by the library)
    files,        \* the filesystem: path -> content, or NoFile
    fileIndex,    \* ClaudeStorage.fileIndex: streamID -> path
    subscribers,  \* ClaudeStorage.subscribers: streamID -> sequence of channels
    chans,        \* the channels made by Subscribe: buffer, closed, goroutine state
    events,       \* watcher.Events: the file events not yet received by watchLoop
    ret,          \* the call that has just returned and what it returned
    dirs,         \* the directories that exist: directory -> whether the watcher watches it
    wl,           \* the watchLoop goroutine: where it is, and its locals
    gp,           \* the getPath call in progress: where it is, and its locals
    watcher,      \* watcher.Errors, and which of the watcher's channels are closed
    mu            \* ClaudeStorage.mu: the goroutine that holds it locked, and those
                  \* that hold it read-locked

vars == <<zeroOffset, files, fileIndex, subscribers, chans, events, ret, dirs, wl, gp,
          watcher, mu>>

----------------------------------------------------------------------------
(* Text and int64 *)

DigitChars == <<"0", "1", "2", "3", "4", "5", "6", "7", "8", "9">>

IsDigit(c) == \E i \in 1..10 : DigitChars[i] = c

DigitVal(c) == (CHOOSE i \in 1..10 : DigitChars[i] = c) - 1

\* The byte value of a character, for Go's string comparison.
CharCode(c) ==
    CASE c = "+" -> 43
      [] c = "-" -> 45
      [] c = "_" -> 95
      [] c = "x" -> 120
      [] OTHER   -> 48 + DigitVal(c)

\* a < b as Go compares strings: bytewise, a proper prefix first.
RECURSIVE StrLess(_, _)
StrLess(a, b) ==
    IF b = <<>> THEN FALSE
    ELSE IF a = <<>> THEN TRUE
    ELSE IF CharCode(Head(a)) # CharCode(Head(b))
         THEN CharCode(Head(a)) < CharCode(Head(b))
         ELSE StrLess(Tail(a), Tail(b))

\* An int64: neg and the digits of the magnitude, most significant first,
\* without leading zeros (zero has no digits).
Num(neg, mag) == [neg |-> neg, mag |-> mag]

Zero == Num(FALSE, <<>>)

MaxInt64Mag == <<9,2,2,3,3,7,2,0,3,6,8,5,4,7,7,5,8,0,7>>

MinInt64Mag == <<9,2,2,3,3,7,2,0,3,6,8,5,4,7,7,5,8,0,8>>

MaxInt64 == Num(FALSE, MaxInt64Mag)

MinInt64 == Num(TRUE, MinInt64Mag)

RECURSIVE StripZeros(_)
StripZeros(ds) ==
    IF ds # <<>> /\ Head(ds) = 0 THEN StripZeros(Tail(ds)) ELSE ds

RECURSIVE DigitsLess(_, _)
DigitsLess(a, b) ==
    IF a = <<>> THEN FALSE
    ELSE IF Head(a) # Head(b) THEN Head(a) < Head(b)
    ELSE DigitsLess(Tail(a), Tail(b))

\* Magnitudes without leading zeros: a < b.
MagLess(a, b) ==
    IF Len(a) # Len(b) THEN Len(a) < Len(b) ELSE DigitsLess(a, b)

\* x < y on int64.
NumLess(x, y) ==
    IF x.neg /\ ~y.neg THEN TRUE
    ELSE IF ~x.neg /\ y.neg THEN FALSE
    ELSE IF x.neg THEN MagLess(y.mag, x.mag)
    ELSE MagLess(x.mag, y.mag)

RECURSIVE NatDigits(_)
NatDigits(i) ==
    IF i = 0 THEN <<>> ELSE Append(NatDigits(i \div 10), i % 10)

\* int64(i) for a small integer i.
IntToNum(i) == IF i < 0 THEN Num(TRUE, NatDigits(-i)) ELSE Num(FALSE, NatDigits(i))

RECURSIVE DigitsValue(_)
DigitsValue(ds) ==
    IF ds = <<>> THEN 0
    ELSE 10 * DigitsValue(SubSeq(ds, 1, Len(ds) - 1)) + ds[Len(ds)]

\* Whether the int64 fits the model's integers, and then its value.
IsSmall(x) == Len(x.mag) <= 9

NumToInt(x) == IF x.neg THEN -DigitsValue(x.mag) ELSE DigitsValue(x.mag)

----------------------------------------------------------------------------
(* Offset codec: storage.go 144-154 *)

OffsetWidth == 20

RECURSIVE ZeroPad(_, _)
ZeroPad(s, w) == IF Len(s) >= w THEN s ELSE ZeroPad(<<"0">> \o s, w)

DigitText(ds) == [i \in 1..Len(ds) |-> DigitChars[ds[i] + 1]]

\* fmt.Sprintf("%0<w>d", n): the decimal digits, zero-padded to width w, the
\* sign (if any) first and counted in the width.
SprintfZeroPad(w, n) ==
    LET digits == IF n.mag = <<>> THEN <<"0">> ELSE DigitText(n.mag)
    IN  IF n.neg THEN <<"-">> \o ZeroPad(digits, w - 1) ELSE ZeroPad(digits, w)

\* The text of n: its sign and digits, nothing for zero.
NumText(n) == (IF n.neg THEN <<"-">> ELSE <<>>) \o DigitText(n.mag)

\* An encoder that does not pad: "%d".
offsetFromIntUnpadded(n) == IF n.mag = <<>> THEN <<"0">> ELSE NumText(n)

offsetFromInt(n) == SprintfZeroPad(OffsetWidth, n)

\* strings.TrimLeft(s, "0")
RECURSIVE TrimLeftZeros(_)
TrimLeftZeros(s) ==
    IF s # <<>> /\ Head(s) = "0" THEN TrimLeftZeros(Tail(s)) ELSE s

\* strconv.ParseInt(s, 10, 64) with its error dropped: 0 on a syntax error,
\* the nearest int64 on a range error.
ParseInt(s) ==
    LET neg  == s # <<>> /\ Head(s) = "-"
        body == IF s # <<>> /\ Head(s) \in {"+", "-"} THEN Tail(s) ELSE s
    IN  IF body = <<>> \/ \E i \in 1..Len(body) : ~IsDigit(body[i])
        THEN Zero
        ELSE LET mag == StripZeros([i \in 1..Len(body) |-> DigitVal(body[i])])
             IN  IF ~neg /\ MagLess(MaxInt64Mag, mag) THEN MaxInt64
                 ELSE IF neg /\ MagLess(MinInt64Mag, mag) THEN MinInt64
                 ELSE IF mag = <<>> THEN Zero
                 ELSE Num(neg, mag)

\* A decoder that trims with strings.Trim: the zeros of both ends.
offsetToIntTrimBoth(o) ==
    LET RECURSIVE TrimRight(_)
        TrimRight(s) ==
            IF s # <<>> /\ s[Len(s)] = "0" THEN TrimRight(SubSeq(s, 1, Len(s) - 1)) ELSE s
    IN  IF o = zeroOffset \/ o = <<"-", "1">>
        THEN Zero
        ELSE ParseInt(TrimRight(TrimLeftZeros(o)))

offsetToInt(o) ==
    IF o = zeroOffset \/ o = <<"-", "1">>
    THEN Zero
    ELSE ParseInt(TrimLeftZeros(o))

----------------------------------------------------------------------------
(* File content *)

\* A file is a sequence of runs of bytes: one '\n', one '\r', or n >= 1
\* bytes that are neither.  A run of ordinary bytes stands for itself: the
\* scanner only looks for '\n' and '\r'.
LF == [b |-> "LF", n |-> 1]

CR == [b |-> "CR", n |-> 1]

Run(n) == [b |-> "X", n |-> n]

RECURSIVE Size(_)
Size(data) == IF data = <<>> THEN 0 ELSE Head(data).n + Size(Tail(data))

\* data[p:]: the bytes from position p on (none at or past the end).
RECURSIVE Drop(_, _)
Drop(data, p) ==
    IF p = 0 \/ data = <<>> THEN data
    ELSE IF p >= Head(data).n THEN Drop(Tail(data), p - Head(data).n)
    ELSE <<[Head(data) EXCEPT !.n = @ - p]>> \o Tail(data)

\* data[:p], for p at most Size(data).
RECURSIVE Take(_, _)
Take(data, p) ==
    IF p = 0 \/ data = <<>> THEN <<>>
    ELSE IF p >= Head(data).n THEN <<Head(data)>> \o Take(Tail(data), p - Head(data).n)
    ELSE <<[Head(data) EXCEPT !.n = p]>>

----------------------------------------------------------------------------
(* bufio.Scanner with bufio.ScanLines, as Read sets it up: storage.go 266-271 *)

MaxScanTokenSize == 16 * 1024 * 1024

\* bufio's dropCR: a trailing '\r' is dropped.
dropCR(data) ==
    IF data # <<>> /\ data[Len(data)] = CR THEN SubSeq(data, 1, Len(data) - 1) ELSE data

\* bufio.ScanLines on the unread bytes (data is not empty): the line up to the
\* first '\n', or the whole rest at end of file.  raw is the line before
\* dropCR; advance is what the scanner consumes.
ScanLines(data) ==
    LET nl  == {i \in 1..Len(data) : data[i] = LF}
        raw == IF nl = {} THEN data
               ELSE SubSeq(data, 1, (CHOOSE i \in nl : \A j \in nl : i <= j) - 1)
    IN  [raw        |-> raw,
         token      |-> dropCR(raw),
         advance    |-> IF nl = {} THEN Size(raw) ELSE Size(raw) + 1,
         terminated |-> nl # {}]

\* Scanner.Scan gives up with ErrTooLong when its buffer, which holds at most
\* MaxScanTokenSize bytes, is full and holds no complete line.
TooLong(tok) == Size(tok.raw) >= MaxScanTokenSize

----------------------------------------------------------------------------
(* ClaudeStorage.Read on an open file: storage.go 251-304 *)

StoredMessage(data, offset) == [Data |-> data, Offset |-> offset]

\* A budget check that forgets the first line.
OverBudgetAlways(bytesRead, line, limit, messages) ==
    bytesRead + Size(line) > limit

\* storage.go 275: the line would pass the budget and is not the first.
OverBudget(bytesRead, line, limit, messages) ==
    bytesRead + Size(line) > limit /\ Len(messages) > 0

\* The scan loop, storage.go 271-293.
RECURSIVE ScanLoop(_, _, _, _, _)
ScanLoop(data, limit, currentOffset, bytesRead, messages) ==
    IF data = <<>>
    THEN [err |-> "", messages |-> messages, currentOffset |-> currentOffset]
    ELSE LET tok == ScanLines(data)
             line == tok.token
             lineLen == Size(line) + 1
         IN  IF TooLong(tok)
             THEN [err |-> "scan", messages |-> messages, currentOffset |-> currentOffset]
             ELSE IF OverBudget(bytesRead, line, limit, messages)
             THEN [err |-> "", messages |-> messages, currentOffset |-> currentOffset]
             ELSE ScanLoop(Drop(data, tok.advance), limit,
                           currentOffset + lineLen,
                           bytesRead + Size(line),
                           Append(messages,
                                  StoredMessage(line, offsetFromInt(IntToNum(currentOffset + lineLen)))))

\* An error result, and a ReadResult.
Failed(err) == [err |-> err, Messages |-> <<>>, NextOffset |-> <<>>, TailOffset |-> <<>>]

ReadResult(messages, nextOffset, tailOffset) ==
    [err |-> "", Messages |-> messages, NextOffset |-> nextOffset, TailOffset |-> tailOffset]

\* storage.go 251-260: decode the offset, seek, stat.  Seek fails on a
\* negative position; past the end it succeeds.  A start too large for the
\* model's integers is past the end of every file, where the scan finds no
\* bytes and never uses it: it is kept as the file's size.
SeekStat(content, offset) ==
    LET startOffset == offsetToInt(offset)
    IN  IF startOffset.neg
        THEN [err |-> "seek", start |-> 0, tailOffset |-> <<>>]
        ELSE [err |-> "",
              start |-> IF IsSmall(startOffset) THEN NumToInt(startOffset) ELSE Size(content),
              tailOffset |-> offsetFromInt(IntToNum(Size(content)))]

\* A next offset that is always the encoded position.
NextOffsetEncoded(messages, offset, currentOffset) ==
    offsetFromInt(IntToNum(currentOffset))

\* storage.go 295-298: the position after the last message, or the offset
\* given when there is none.
NextOffset(messages, offset, currentOffset) ==
    IF Len(messages) = 0 THEN offset ELSE offsetFromInt(IntToNum(currentOffset))

\* storage.go 262-304: scan from start, and the result.
ScanResult(content, offset, limit, start, tailOffset) ==
    LET scan == ScanLoop(Drop(content, start), limit, start, 0, <<>>)
    IN  IF scan.err # "" THEN Failed(scan.err)
        ELSE ReadResult(scan.messages,
                        NextOffset(scan.messages, offset, scan.currentOffset),
                        tailOffset)

----------------------------------------------------------------------------
(* The directory tree under claudeDir *)

JSONL == ".jsonl"

\* A path: the directories below claudeDir, and the base name as name + ext.
Path(dir, name, ext) == [dir |-> dir, name |-> name, ext |-> ext]

\* A directory: its names below claudeDir.
claudeDir == <<>>

projectsDir == <<"projects">>

\* The directories there may be: claudeDir, projects, projects/a, projects/a/b.
Dirs == {claudeDir, projectsDir, <<"projects", "a">>, <<"projects", "a", "b">>}

Parent(d) == SubSeq(d, 1, Len(d) - 1)

\* The path of a directory, as an event names it.
DirPath(d) == Path(Parent(d), d[Len(d)], "")

UnderProjects(d) ==
    Len(d) >= Len(projectsDir) /\ SubSeq(d, 1, Len(projectsDir)) = projectsDir

historyPath == Path(<<>>, "history", JSONL)

HistoryID == "_history"

\* The project files in the order filepath.WalkDir(projectsDir) visits them
\* (lexical in each directory: "a" before "s1.jsonl", and in projects/a
\* "_history.jsonl" before "b" before "s1.jsonl").
WalkOrder ==
    << Path(<<"projects", "a">>, "_history", JSONL),
       Path(<<"projects", "a", "b">>, "s1", JSONL),
       Path(<<"projects", "a">>, "s1", JSONL),
       Path(<<"projects">>, "s1", JSONL) >>

ProjectPaths == {WalkOrder[i] : i \in 1..Len(WalkOrder)}

\* The files of conversation s1 below a project directory.
SessionPaths == {WalkOrder[2], WalkOrder[3]}

\* A .jsonl file in claudeDir that is not the history.
strayPath == Path(<<>>, "s2", JSONL)

\* Every file there may be, in lexical order: of two matches of one glob
\* pattern, filepath.Glob returns first the one that is first here.
TreeOrder == <<historyPath>> \o WalkOrder \o <<strayPath>>

Paths == {TreeOrder[i] : i \in 1..Len(TreeOrder)}

\* strings.HasSuffix(path, ".jsonl")
HasJSONLSuffix(path) == path.ext = JSONL

\* strings.TrimSuffix(filepath.Base(path), ".jsonl"), for a path with that suffix
BaseStreamID(path) == path.name

\* A stream id as a caller gives it: with or without a leading slash.
StreamID(slash, name) == [slash |-> slash, name |-> name]

\* strings.TrimPrefix(streamID, "/")
TrimSlash(streamID) == streamID.name

\* An assignment that forgets the other keys.
PutOnly(m, k, v) == [x \in {k} |-> v]

Put(m, k, v) == [x \in DOMAIN m \cup {k} |-> IF x = k THEN v ELSE m[x]]

\* The position in TreeOrder of the first path that satisfies Hit: 0 if none.
FirstHit(Hit(_)) ==
    LET hits == {i \in 1..Len(TreeOrder) : Hit(TreeOrder[i])}
    IN  IF hits = {} THEN 0 ELSE CHOOSE i \in hits : \A j \in hits : i <= j

----------------------------------------------------------------------------
(* NewClaudeStorage and indexFiles: storage.go 44-91 *)

\* indexFiles: every .jsonl file of the walk is registered, a later one over
\* an earlier one of the same name.
RECURSIVE indexFiles(_, _, _)
indexFiles(fs, index, i) ==
    IF i > Len(WalkOrder) THEN index
    ELSE LET path == WalkOrder[i]
         IN  IF path \in DOMAIN fs /\ HasJSONLSuffix(path)
             THEN indexFiles(fs, Put(index, BaseStreamID(path), path), i + 1)
             ELSE indexFiles(fs, index, i + 1)

NewClaudeStorage(fs) ==
    indexFiles(fs, Put(<<>>, HistoryID, historyPath), 1)

\* The watch set NewClaudeStorage leaves on the directories ds there are at
\* startup: claudeDir (storage.go 61) and every directory the walk of
\* indexFiles meets under projectsDir, itself included (storage.go 79-81).
WatchAtStartup(ds) == [d \in ds |-> d = claudeDir \/ UnderProjects(d)]

----------------------------------------------------------------------------
(* getPath: storage.go 156-198 *)

\* The characters of a name, as far as a pattern may tell them apart: the
\* names that hold a glob metacharacter, or that one of these may match in
\* part, are spelled out; every other name is one symbol.
Chars(name) ==
    CASE name = ""       -> <<>>
      [] name = "s1"     -> <<"s", "1">>
      [] name = "s2"     -> <<"s", "2">>
      [] name = "s?"     -> <<"s", "?">>
      [] name = "*"      -> <<"*">>
      [] name = "**"     -> <<"*", "*">>
      [] name = JSONL    -> <<".", "jsonl">>
      [] OTHER           -> <<name>>

\* filepath.Match of a pattern with a name that holds no separator: "*" is
\* any run of characters and "?" any one character (character classes and
\* escapes are left out).
RECURSIVE Match(_, _)
Match(pattern, name) ==
    IF pattern = <<>> THEN name = <<>>
    ELSE IF Head(pattern) = "*"
    THEN Match(Tail(pattern), name) \/ (name # <<>> /\ Match(pattern, Tail(name)))
    ELSE IF name = <<>> THEN FALSE
    ELSE IF Head(pattern) = "?" THEN Match(Tail(pattern), Tail(name))
    ELSE Head(pattern) = Head(name) /\ Match(Tail(pattern), Tail(name))

\* The elements of an id between its separators.
Segments(id) ==
    CASE id = "../s1"         -> <<"..", "s1">>
      [] id = "../../history" -> <<"..", "..", "history">>
      [] id = "b/s1"          -> <<"b", "s1">>
      [] OTHER                -> <<id>>

\* filepath.Clean, which filepath.Join applies: ".." takes away the element
\* before it, whatever that is; a ".." with nothing before it stays, and
\* names a place above claudeDir.
RECURSIVE Clean(_, _)
Clean(done, rest) ==
    IF rest = <<>> THEN done
    ELSE IF Head(rest) = ".." /\ done # <<>> /\ done[Len(done)] # ".."
    THEN Clean(SubSeq(done, 1, Len(done) - 1), Tail(rest))
    ELSE Clean(Append(done, Head(rest)), Tail(rest))

\* The directory part of filepath.Join(projectsDir, "**", streamID+".jsonl").
PatternDir(id) ==
    LET segs == Segments(id)
    IN  Clean(<<>>, projectsDir \o <<"**">> \o SubSeq(segs, 1, Len(segs) - 1))

\* Its last element.
PatternBase(id) ==
    LET segs == Segments(id)
    IN  Chars(segs[Len(segs)]) \o Chars(JSONL)

\* filepath.Glob of that pattern (storage.go 169-170): the files whose every
\* directory name matches the element of the pattern at its place, and whose
\* base name matches the last element.  For an id that is one plain name
\* these are the files <id>.jsonl one level below projectsDir.
GlobHit(fs, id, path) ==
    LET dir == PatternDir(id)
    IN  /\ path \in DOMAIN fs
        /\ Len(path.dir) = Len(dir)
        /\ \A k \in 1..Len(dir) : Match(Chars(dir[k]), Chars(path.dir[k]))
        /\ Match(PatternBase(id), Chars(path.name) \o Chars(path.ext))

\* A deeper search that finds nothing.
WalkHitNever(fs, id, path) == FALSE

\* The deeper search, filepath.WalkDir(projectsDir): the first file of the
\* walk whose base name is <id>.jsonl.
WalkHit(fs, id, path) ==
    /\ path \in DOMAIN fs
    /\ UnderProjects(path.dir)
    /\ path.name = id /\ path.ext = JSONL

\* What getPath returns, and the index it leaves.
getPath(fs, index, streamID) ==
    LET id == TrimSlash(streamID)
        GHit(p) == GlobHit(fs, id, p)
        WHit(p) == WalkHit(fs, id, p)
        g == FirstHit(GHit)
        w == FirstHit(WHit)
    IN  IF id \in DOMAIN index
        THEN [err |-> "", path |-> index[id], index |-> index]
        ELSE IF g # 0
        THEN [err |-> "", path |-> TreeOrder[g], index |-> Put(index, id, TreeOrder[g])]
        ELSE IF w # 0
        THEN [err |-> "", path |-> TreeOrder[w], index |-> Put(index, id, TreeOrder[w])]
        ELSE [err |-> "ErrStreamNotFound", path |-> historyPath, index |-> index]

----------------------------------------------------------------------------
(* Bounds and inputs *)

MaxRuns == 4

MaxLimit == 2

MaxPos == 11

MaxSubs == 1

MaxBytes == 2

MaxEvents == 2

MaxChans == 2

MaxFanBytes == 3

MaxWakeBytes == 4

MaxErrors == 1

MaxLoopBytes == 1

MaxLockBytes == 1

\* durablestream.ZeroOffset is set by the library, outside this repository:
\* the empty string, a string of zeros, or a string that is no number.
ZeroOffsets == { <<>>, <<"0", "_", "0">>, offsetFromInt(Zero) }

NoCall == [op |-> "none"]

\* watchLoop waiting in its select, and no getPath in progress.
Idle == [pc |-> "idle"]

NoGetPath == [pc |-> "none"]

\* fsnotify.NewWatcher() (storage.go 45): no error waits in watcher.Errors,
\* and watcher.Events and watcher.Errors are open.
NewWatcher == [Errors |-> <<>>, closed |-> {}]

\* sync.RWMutex, unlocked: w is the goroutine that holds the lock, if any,
\* and r those that hold the read lock.
Unlocked == [w |-> <<>>, r |-> {}]

Subs(id) == IF id \in DOMAIN subscribers THEN subscribers[id] ELSE <<>>

\* a followed by b, ordinary bytes that meet being one run.
Concat(a, b) ==
    IF a # <<>> /\ b # <<>> /\ a[Len(a)].b = "X" /\ Head(b).b = "X"
    THEN SubSeq(a, 1, Len(a) - 1) \o <<Run(a[Len(a)].n + Head(b).n)>> \o Tail(b)
    ELSE a \o b

----------------------------------------------------------------------------
(* Create, Append, AppendFrom, Delete: storage.go 200-218 *)

Create(streamID) ==
    /\ ret' = [op |-> "Create", streamID |-> streamID, created |-> FALSE, err |-> "ErrReadOnly"]
    /\ UNCHANGED <<zeroOffset, watcher, mu, dirs, wl, gp, files, fileIndex, subscribers, chans, events>>

AppendData(streamID) ==
    /\ ret' = [op |-> "Append", streamID |-> streamID, offset |-> zeroOffset, err |-> "ErrReadOnly"]
    /\ UNCHANGED <<zeroOffset, watcher, mu, dirs, wl, gp, files, fileIndex, subscribers, chans, events>>

AppendFrom(streamID) ==
    /\ ret' = [op |-> "AppendFrom", streamID |-> streamID, offset |-> zeroOffset, err |-> "ErrReadOnly"]
    /\ UNCHANGED <<zeroOffset, watcher, mu, dirs, wl, gp, files, fileIndex, subscribers, chans, events>>

\* A Delete that does delete: the index entry, its file and its subscribers.
DeleteRemoves(streamID) ==
    LET id == TrimSlash(streamID)
    IN  /\ ret' = [op |-> "Delete", streamID |-> streamID, err |-> "ErrReadOnly"]
        /\ fileIndex' = [x \in DOMAIN fileIndex \ {id} |-> fileIndex[x]]
        /\ files' = IF id \in DOMAIN fileIndex
                    THEN [q \in DOMAIN files \ {fileIndex[id]} |-> files[q]]
                    ELSE files
        /\ subscribers' = [x \in DOMAIN subscribers \ {id} |-> subscribers[x]]
        /\ UNCHANGED <<zeroOffset, watcher, mu, dirs, wl, gp, chans, events>>

Delete(streamID) ==
    /\ ret' = [op |-> "Delete", streamID |-> streamID, err |-> "ErrReadOnly"]
    /\ UNCHANGED <<zeroOffset, watcher, mu, dirs, wl, gp, files, fileIndex, subscribers, chans, events>>

----------------------------------------------------------------------------
(* Head: storage.go 220-236 *)

HeadInfo(streamID) ==
    LET r == getPath(files, fileIndex, streamID)
    IN  /\ fileIndex' = r.index
        /\ ret' = [op |-> "Head", streamID |-> streamID,
                   err |-> IF r.err # "" THEN r.err
                           ELSE IF r.path \notin DOMAIN files THEN "stat" ELSE "",
                   NextOffset |-> IF r.err = "" /\ r.path \in DOMAIN files
                                  THEN offsetFromInt(IntToNum(Size(files[r.path])))
                                  ELSE <<>>]
        /\ UNCHANGED <<zeroOffset, watcher, mu, dirs, wl, gp, files, subscribers, chans, events>>

----------------------------------------------------------------------------
(* Read: storage.go 238-305 *)

ReadCall(streamID, offset, limit, path, result) ==
    [op |-> "Read", streamID |-> streamID, offset |-> offset, limit |-> limit,
     path |-> path, result |-> result]

Read(streamID, offset, limit) ==
    LET r == getPath(files, fileIndex, streamID)
        st == SeekStat(files[r.path], offset)
        result == IF r.err # "" THEN Failed(r.err)
                  ELSE IF r.path \notin DOMAIN files THEN Failed("open")
                  ELSE IF st.err # "" THEN Failed(st.err)
                  ELSE ScanResult(files[r.path], offset, limit, st.start, st.tailOffset)
    IN  /\ fileIndex' = r.index
        /\ ret' = ReadCall(streamID, offset, limit, r.path, result)
        /\ UNCHANGED <<zeroOffset, watcher, mu, dirs, wl, gp, files, subscribers, chans, events>>

----------------------------------------------------------------------------
(* Subscribe and its cancellation goroutine: storage.go 307-338 *)

\* s.mu is read-locked over more than one step only by watchLoop, while it
\* sends to the subscribers (storage.go 118-125); s.mu.Lock() waits for that.
RLockHeldNever == FALSE

RLockHeld == wl.pc = "send"

\* make(chan durablestream.Offset, 1), and the goroutine that waits for
\* ctx.Done(); last is the offset last put in the buffer, if any.
NewChan(id) == [id |-> id, buf |-> <<>>, closed |-> FALSE, pc |-> "wait", last |-> <<>>]

\* Subscribe makes no use of its offset (storage.go 308-338); the call that
\* returned a channel keeps it, for the caller.
Subscribe(streamID, offset) ==
    LET id == TrimSlash(streamID)
        r  == getPath(files, fileIndex, StreamID(FALSE, id))
        ch == Len(chans) + 1
    IN  /\ (r.err = "" \/ r.index # fileIndex) => ~RLockHeld
        /\ fileIndex' = r.index
        /\ IF r.err # ""
           THEN /\ ret' = [op |-> "Subscribe", streamID |-> streamID, err |-> r.err, ch |-> 0]
                /\ UNCHANGED <<subscribers, chans>>
           ELSE /\ chans' = Append(chans, NewChan(id))
                /\ subscribers' = Put(subscribers, id, Append(Subs(id), ch))
                /\ ret' = [op |-> "Subscribe", streamID |-> streamID, err |-> "", ch |-> ch,
                           offset |-> offset]
        /\ UNCHANGED <<zeroOffset, watcher, mu, dirs, wl, gp, files, events>>

\* subs without its first ch.
RECURSIVE RemoveFirst(_, _)
RemoveFirst(subs, ch) ==
    IF subs = <<>> THEN <<>>
    ELSE IF Head(subs) = ch THEN Tail(subs)
    ELSE <<Head(subs)>> \o RemoveFirst(Tail(subs), ch)

\* ctx.Done() fired: the channel leaves the registry, under the lock (324-333).
CancelRemove(ch) ==
    /\ ch \in 1..Len(chans)
    /\ chans[ch].pc = "wait"
    /\ ~RLockHeld
    /\ subscribers' = Put(subscribers, chans[ch].id, RemoveFirst(Subs(chans[ch].id), ch))
    /\ chans' = [chans EXCEPT ![ch].pc = "close"]
    /\ UNCHANGED <<zeroOffset, watcher, mu, dirs, wl, gp, files, fileIndex, events, ret>>

\* close(ch) (334).
CancelClose(ch) ==
    /\ ch \in 1..Len(chans)
    /\ chans[ch].pc = "close"
    /\ chans' = [chans EXCEPT ![ch].pc = "done", ![ch].closed = TRUE]
    /\ UNCHANGED <<zeroOffset, watcher, mu, dirs, wl, gp, files, fileIndex, subscribers, events, ret>>

\* The subscriber takes the offset waiting in its channel.
Receive(ch) ==
    /\ ch \in 1..Len(chans)
    /\ chans[ch].buf # <<>>
    /\ chans' = [chans EXCEPT ![ch].buf = <<>>]
    /\ ret' = [op |-> "Receive", ch |-> ch, offset |-> Head(chans[ch].buf)]
    /\ UNCHANGED <<zeroOffset, watcher, mu, dirs, wl, gp, files, fileIndex, subscribers, events>>

----------------------------------------------------------------------------
(* The files' writers, and watchLoop: storage.go 93-142 *)

RECURSIVE TotalSize(_, _)
TotalSize(fs, ps) ==
    IF ps = {} THEN 0
    ELSE LET q == CHOOSE q \in ps : TRUE
         IN  Size(fs[q]) + TotalSize(fs, ps \ {q})

\* There is room for data more bytes in the files and for one more event in
\* the queue.
Room(data, maxBytes, maxEvents) ==
    /\ TotalSize(files, DOMAIN files) + Size(data) <= maxBytes
    /\ Len(events) < maxEvents

\* storage.go 102-103: the event is a write or a create of a .jsonl name.
FileEvent(event) == event.Op \in {"Write", "Create"} /\ HasJSONLSuffix(event.Name)

\* The stream id watchLoop gives the file of an event (storage.go 104-108).
StreamOf(path) == IF path = historyPath THEN HistoryID ELSE BaseStreamID(path)

\* The event fsnotify queues for a change in directory d: none when the
\* watcher does not watch d.  size is the size the file had just after the
\* change; watchLoop does not read it.
Notify(d, name, op, size) ==
    IF dirs[d] THEN Append(events, [Name |-> name, Op |-> op, size |-> size]) ELSE events

\* A process outside appends data to a file, creating it if needed.
FsWrite(path, data) ==
    LET content == IF path \in DOMAIN files THEN Concat(files[path], data) ELSE data
    IN  /\ path.dir \in DOMAIN dirs
        /\ files' = Put(files, path, content)
        /\ events' = Notify(path.dir, path,
                            IF path \in DOMAIN files THEN "Write" ELSE "Create",
                            Size(content))
        /\ UNCHANGED <<zeroOffset, watcher, mu, dirs, wl, gp, fileIndex, subscribers, chans, ret>>

\* A process outside removes a file.
FsRemove(path) ==
    /\ path \in DOMAIN files
    /\ files' = [q \in DOMAIN files \ {path} |-> files[q]]
    /\ events' = Notify(path.dir, path, "Remove", 0)
    /\ UNCHANGED <<zeroOffset, watcher, mu, dirs, wl, gp, fileIndex, subscribers, chans, ret>>

\* A process outside makes directory d.  Nothing in storage.go adds a watch
\* after NewClaudeStorage has returned, so d is not watched.
FsMkdir(d) ==
    /\ d \notin DOMAIN dirs
    /\ Parent(d) \in DOMAIN dirs
    /\ dirs' = Put(dirs, d, FALSE)
    /\ events' = Notify(Parent(d), DirPath(d), "Create", 0)
    /\ UNCHANGED <<zeroOffset, watcher, mu, wl, gp, files, fileIndex, subscribers, chans, ret>>

\* A send that takes the place of what the buffer holds.
SendOverwrite(c, tail) == [c EXCEPT !.buf = <<tail>>, !.last = <<tail>>]

\* A send that is always given up.
SendNever(c, tail) == c

\* select { case ch <- tail: default: } on channel c, which is open
\* (storage.go 120-123): tail goes in the buffer if its one slot is free.
TrySend(c, tail) ==
    IF c.buf = <<>> THEN [c EXCEPT !.buf = <<tail>>, !.last = <<tail>>] ELSE c

\* getTailOffset: storage.go 136-142.
getTailOffset(fs, path) ==
    IF path \in DOMAIN fs
    THEN [offset |-> offsetFromInt(IntToNum(Size(fs[path]))), err |-> ""]
    ELSE [offset |-> zeroOffset, err |-> "stat"]

\* One turn of watchLoop on a received event: storage.go 98-127.  The send to
\* each subscriber of the stream does not block: it is dropped when the
\* channel's one slot is taken.
watchLoop ==
    /\ events # <<>>
    /\ events' = Tail(events)
    /\ LET event == Head(events)
       IN  IF event.Op \in {"Write", "Create"} /\ HasJSONLSuffix(event.Name)
           THEN LET streamID == StreamOf(event.Name)
                    tail == getTailOffset(files, event.Name).offset
                    subs == Subs(streamID)
                IN  /\ fileIndex' = IF event.Name = historyPath THEN fileIndex
                                    ELSE Put(fileIndex, streamID, event.Name)
                    /\ chans' = [ch \in 1..Len(chans) |->
                                   IF \E i \in 1..Len(subs) : subs[i] = ch
                                   THEN TrySend(chans[ch], tail)
                                   ELSE chans[ch]]
           ELSE UNCHANGED <<fileIndex, chans>>
    /\ UNCHANGED <<zeroOffset, watcher, mu, dirs, wl, gp, files, subscribers, ret>>

----------------------------------------------------------------------------
(* The store: every operation, on a small tree *)

S1 == StreamID(FALSE, "s1")

StreamIDs == {S1, StreamID(TRUE, "s1"), StreamID(FALSE, "s2"), StreamID(FALSE, HistoryID)}

\* The trees the process may start on.
InitialFiles ==
    { <<>>,
      (historyPath :> <<LF>>),
      (WalkOrder[2] :> <<LF>>),
      (WalkOrder[2] :> <<>>) @@ (WalkOrder[3] :> <<LF>>) }

WriteChunks == { <<Run(1), LF>>, <<Run(1)>> }

StoreOffsets == { <<"-", "1">>, offsetFromInt(IntToNum(2)) }

Init ==
    /\ zeroOffset \in ZeroOffsets
    /\ files \in InitialFiles
    /\ dirs = WatchAtStartup(Dirs)
    /\ fileIndex = NewClaudeStorage(files)
    /\ wl = Idle
    /\ watcher = NewWatcher
    /\ mu = Unlocked
    /\ gp = NoGetPath
    /\ subscribers = <<>>
    /\ chans = <<>>
    /\ events = <<>>
    /\ ret = NoCall

\* The caller takes the result of the call that has just returned.
Return ==
    /\ ret # NoCall
    /\ ret' = NoCall
    /\ UNCHANGED <<zeroOffset, watcher, mu, dirs, wl, gp, files, fileIndex, subscribers, chans, events>>

\* A result is taken before the next step is made: ret is the call that
\* returned in the step just made.
Next ==
    \/ ret = NoCall /\ \E id \in StreamIDs : Create(id)
    \/ ret = NoCall /\ \E id \in StreamIDs : AppendData(id)
    \/ ret = NoCall /\ \E id \in StreamIDs : AppendFrom(id)
    \/ ret = NoCall /\ \E id \in StreamIDs : Delete(id)
    \/ ret = NoCall /\ \E id \in StreamIDs : HeadInfo(id)
    \/ ret = NoCall /\ \E id \in StreamIDs, o \in StoreOffsets : Read(id, o, MaxLimit)
    \/ ret = NoCall /\ Len(chans) < MaxSubs /\ \E id \in StreamIDs : Subscribe(id, <<"-", "1">>)
    \/ ret = NoCall /\ \E ch \in 1..MaxSubs : CancelRemove(ch)
    \/ ret = NoCall /\ \E ch \in 1..MaxSubs : CancelClose(ch)
    \/ ret = NoCall /\ \E ch \in 1..MaxSubs : Receive(ch)
    \/ ret = NoCall /\ \E path \in SessionPaths \cup {historyPath}, data \in WriteChunks :
          Room(data, MaxBytes, MaxEvents) /\ FsWrite(path, data)
    \/ ret = NoCall /\ watchLoop
    \/ Return

Spec == Init /\ [][Next]_vars

----------------------------------------------------------------------------
(* The store under a tree that changes: files come and go, directories are
   made *)

S2 == StreamID(FALSE, "s2")

TreeStreamIDs == {S1, S2}

\* The directories the process may start on.
InitialDirs == { {claudeDir, projectsDir}, Dirs }

InitTree ==
    /\ zeroOffset \in ZeroOffsets
    /\ \E ds \in InitialDirs :
          /\ dirs = WatchAtStartup(ds)
          /\ files \in {fs \in InitialFiles : \A q \in DOMAIN fs : q.dir \in ds}
    /\ fileIndex = NewClaudeStorage(files)
    /\ wl = Idle
    /\ watcher = NewWatcher
    /\ mu = Unlocked
    /\ gp = NoGetPath
    /\ subscribers = <<>>
    /\ chans = <<>>
    /\ events = <<>>
    /\ ret = NoCall

NextTree ==
    \/ ret = NoCall /\ \E id \in TreeStreamIDs : HeadInfo(id)
    \/ ret = NoCall /\ \E id \in TreeStreamIDs : Read(id, <<"-", "1">>, MaxLimit)
    \/ ret = NoCall /\ Len(chans) < MaxSubs /\ \E id \in TreeStreamIDs : Subscribe(id, <<"-", "1">>)
    \/ ret = NoCall /\ \E ch \in 1..MaxSubs : Receive(ch)
    \/ ret = NoCall /\ \E path \in SessionPaths, data \in WriteChunks :
          Room(data, MaxBytes, MaxEvents) /\ FsWrite(path, data)
    \/ ret = NoCall /\ \E path \in SessionPaths : Room(<<>>, MaxBytes, MaxEvents) /\ FsRemove(path)
    \/ ret = NoCall /\ \E d \in Dirs : Room(<<>>, MaxBytes, MaxEvents) /\ FsMkdir(d)
    \/ ret = NoCall /\ watchLoop
    \/ Return

SpecTree == InitTree /\ [][NextTree]_vars

----------------------------------------------------------------------------
(* The goroutines, a lock region at a time: the callers of getPath, the
   cancellation goroutines and watchLoop interleave wherever s.mu lets them.
   A step that takes s.mu.Lock() waits while watchLoop holds the read lock;
   every other locked region is one step. *)

\* getPath, storage.go 158-166: the lookup, under the read lock.
GetPathLookup(op, streamID) ==
    LET id == TrimSlash(streamID)
    IN  /\ gp = NoGetPath
        /\ gp' = IF id \in DOMAIN fileIndex
                  THEN [pc |-> "return", op |-> op, id |-> id, err |-> "", path |-> fileIndex[id]]
                  ELSE [pc |-> "search", op |-> op, id |-> id, err |-> "", path |-> historyPath]
        /\ UNCHANGED <<zeroOffset, watcher, mu, dirs, wl, files, fileIndex, subscribers, chans, events, ret>>

\* getPath, storage.go 168-171 and 178-190: the glob, then the walk, with no
\* lock held.
GetPathSearch ==
    LET GHit(q) == GlobHit(files, gp.id, q)
        WHit(q) == WalkHit(files, gp.id, q)
        g == FirstHit(GHit)
        w == FirstHit(WHit)
    IN  /\ gp.pc = "search"
        /\ gp' = IF g # 0 THEN [gp EXCEPT !.pc = "write", !.path = TreeOrder[g]]
                  ELSE IF w # 0 THEN [gp EXCEPT !.pc = "write", !.path = TreeOrder[w]]
                  ELSE [gp EXCEPT !.pc = "return", !.err = "ErrStreamNotFound"]
        /\ UNCHANGED <<zeroOffset, watcher, mu, dirs, wl, files, fileIndex, subscribers, chans, events, ret>>

\* getPath, storage.go 172-174 and 191-193: the path found goes in the index,
\* under the lock.
GetPathWrite ==
    /\ gp.pc = "write"
    /\ ~RLockHeld
    /\ fileIndex' = Put(fileIndex, gp.id, gp.path)
    /\ gp' = [gp EXCEPT !.pc = "return"]
    /\ UNCHANGED <<zeroOffset, watcher, mu, dirs, wl, files, subscribers, chans, events, ret>>

\* Head after its getPath: storage.go 223-235.
HeadReturn ==
    /\ gp.pc = "return" /\ gp.op = "Head"
    /\ ret' = [op |-> "Head", streamID |-> StreamID(FALSE, gp.id),
               err |-> IF gp.err # "" THEN gp.err
                       ELSE IF gp.path \notin DOMAIN files THEN "stat" ELSE "",
               NextOffset |-> IF gp.err = "" /\ gp.path \in DOMAIN files
                              THEN offsetFromInt(IntToNum(Size(files[gp.path])))
                              ELSE <<>>]
    /\ gp' = NoGetPath
    /\ UNCHANGED <<zeroOffset, watcher, mu, dirs, wl, files, fileIndex, subscribers, chans, events>>

\* Subscribe after its getPath: storage.go 313-337.
SubscribeReturn ==
    LET ch == Len(chans) + 1
    IN  /\ gp.pc = "return" /\ gp.op = "Subscribe"
        /\ IF gp.err # ""
           THEN /\ ret' = [op |-> "Subscribe", streamID |-> StreamID(FALSE, gp.id),
                           err |-> gp.err, ch |-> 0]
                /\ UNCHANGED <<subscribers, chans>>
           ELSE /\ ~RLockHeld
                /\ chans' = Append(chans, NewChan(gp.id))
                /\ subscribers' = Put(subscribers, gp.id, Append(Subs(gp.id), ch))
                /\ ret' = [op |-> "Subscribe", streamID |-> StreamID(FALSE, gp.id),
                           err |-> "", ch |-> ch]
        /\ gp' = NoGetPath
        /\ UNCHANGED <<zeroOffset, watcher, mu, dirs, wl, files, fileIndex, events>>

\* watchLoop, storage.go 98-115: an event is received; the file of a write or
\* create of a .jsonl name goes in the index, under the lock, and is stat'ed,
\* with no lock held.
WatchReceive ==
    /\ wl.pc = "idle"
    /\ events # <<>>
    /\ events' = Tail(events)
    /\ LET event == Head(events)
       IN  IF FileEvent(event)
           THEN /\ fileIndex' = IF event.Name = historyPath THEN fileIndex
                                 ELSE Put(fileIndex, StreamOf(event.Name), event.Name)
                /\ wl' = [pc |-> "rlock", streamID |-> StreamOf(event.Name),
                          tail |-> getTailOffset(files, event.Name).offset]
           ELSE UNCHANGED <<fileIndex, wl>>
    /\ UNCHANGED <<zeroOffset, watcher, mu, dirs, gp, files, subscribers, chans, ret>>

\* watchLoop, storage.go 118-119: the read lock is taken and the range over
\* the stream's subscribers starts (and ends, if there are none).
WatchRLock ==
    /\ wl.pc = "rlock"
    /\ wl' = IF Subs(wl.streamID) = <<>> THEN Idle
              ELSE [pc |-> "send", streamID |-> wl.streamID, tail |-> wl.tail,
                    subs |-> Subs(wl.streamID), i |-> 1]
    /\ UNCHANGED <<zeroOffset, watcher, mu, dirs, gp, files, fileIndex, subscribers, chans, events, ret>>

\* watchLoop, storage.go 119-125: one turn of the range; a send on a closed
\* channel panics.  After the last turn the read lock is released.
WatchSend ==
    /\ wl.pc = "send"
    /\ LET ch == wl.subs[wl.i]
       IN  IF chans[ch].closed
           THEN wl' = [pc |-> "panic"] /\ UNCHANGED chans
           ELSE /\ chans' = [chans EXCEPT ![ch] = TrySend(chans[ch], wl.tail)]
                /\ wl' = IF wl.i < Len(wl.subs) THEN [wl EXCEPT !.i = @ + 1] ELSE Idle
    /\ UNCHANGED <<zeroOffset, watcher, mu, dirs, gp, files, fileIndex, subscribers, events, ret>>

\* The trees the process may start on: project files only.
RaceFiles == {fs \in InitialFiles : DOMAIN fs \subseteq SessionPaths}

InitRace ==
    /\ zeroOffset \in ZeroOffsets
    /\ files \in RaceFiles
    /\ dirs = WatchAtStartup(Dirs)
    /\ fileIndex = NewClaudeStorage(files)
    /\ wl = Idle
    /\ watcher = NewWatcher
    /\ mu = Unlocked
    /\ gp = NoGetPath
    /\ subscribers = <<>>
    /\ chans = <<>>
    /\ events = <<>>
    /\ ret = NoCall

NextRace ==
    \/ ret = NoCall /\ GetPathLookup("Head", S1)
    \/ ret = NoCall /\ Len(chans) < MaxChans /\ GetPathLookup("Subscribe", S1)
    \/ ret = NoCall /\ GetPathSearch
    \/ ret = NoCall /\ GetPathWrite
    \/ ret = NoCall /\ HeadReturn
    \/ ret = NoCall /\ SubscribeReturn
    \/ ret = NoCall /\ \E ch \in 1..MaxChans : CancelRemove(ch)
    \/ ret = NoCall /\ \E ch \in 1..MaxChans : CancelClose(ch)
    \/ ret = NoCall /\ \E ch \in 1..MaxChans : Receive(ch)
    \/ ret = NoCall /\ \E path \in SessionPaths :
          Room(<<Run(1)>>, MaxBytes, MaxEvents) /\ FsWrite(path, <<Run(1)>>)
    \/ ret = NoCall /\ WatchReceive
    \/ ret = NoCall /\ WatchRLock
    \/ ret = NoCall /\ WatchSend
    \/ Return

SpecRace == InitRace /\ [][NextRace]_vars

----------------------------------------------------------------------------
(* The fan-out of watchLoop, a send at a time, to subscribers that read when
   they like: two files of one base name, only ever appended to *)

InitFan ==
    /\ zeroOffset \in ZeroOffsets
    /\ files = (WalkOrder[2] :> <<>>) @@ (WalkOrder[3] :> <<LF>>)
    /\ dirs = WatchAtStartup(Dirs)
    /\ fileIndex = NewClaudeStorage(files)
    /\ wl = Idle
    /\ watcher = NewWatcher
    /\ mu = Unlocked
    /\ gp = NoGetPath
    /\ subscribers = <<>>
    /\ chans = <<>>
    /\ events = <<>>
    /\ ret = NoCall

NextFan ==
    \/ ret = NoCall /\ Len(chans) < MaxChans /\ Subscribe(S1, <<"-", "1">>)
    \/ ret = NoCall /\ \E ch \in 1..MaxChans : Receive(ch)
    \/ ret = NoCall /\ \E path \in SessionPaths :
          Room(<<Run(1)>>, MaxFanBytes, MaxFanBytes) /\ FsWrite(path, <<Run(1)>>)
    \/ ret = NoCall /\ WatchReceive
    \/ ret = NoCall /\ WatchRLock
    \/ ret = NoCall /\ WatchSend
    \/ Return

SpecFan == InitFan /\ [][NextFan]_vars

----------------------------------------------------------------------------
(* Read on one file of any content *)

ReadPath == WalkOrder[3]

Bytes == {LF, CR, Run(1), Run(2), Run(MaxScanTokenSize - 1)}

\* Every file of at most MaxRuns runs (no two runs of ordinary bytes meet).
FileContents ==
    UNION { { c \in [1..n -> Bytes] :
                \A i \in 1..(n - 1) : ~(c[i].b = "X" /\ c[i + 1].b = "X") }
            : n \in 0..MaxRuns }

RECURSIVE Boundaries(_)
Boundaries(data) ==
    IF data = <<>> THEN {0}
    ELSE {0} \cup {Head(data).n + p : p \in Boundaries(Tail(data))}

\* Offsets a caller may pass: the well-formed token of every run boundary of
\* the file and of the byte after it, and tokens this system never made.
Unpadded(i) == IF i = 0 THEN <<"0">> ELSE DigitText(NatDigits(i))

TooLargeToken == [i \in 1..OffsetWidth |-> "9"]

OddTokens ==
    { <<>>, <<"-", "1">>, <<"-", "5">>, <<"+", "1">>, <<"x">>, TooLargeToken }

ReadOffsets(content) ==
    {offsetFromInt(IntToNum(p)) : p \in Boundaries(content)}
    \cup {offsetFromInt(IntToNum(p + 1)) : p \in Boundaries(content)}
    \cup {Unpadded(Size(content)), zeroOffset}
    \cup OddTokens

HugeLimit == 4 * MaxScanTokenSize

Limits == 0..MaxLimit \cup {HugeLimit}

InitRead ==
    /\ zeroOffset \in ZeroOffsets
    /\ \E content \in FileContents : files = (ReadPath :> content)
    /\ fileIndex = NewClaudeStorage(files)
    /\ dirs = WatchAtStartup(Dirs)
    /\ wl = Idle
    /\ watcher = NewWatcher
    /\ mu = Unlocked
    /\ gp = NoGetPath
    /\ subscribers = <<>>
    /\ chans = <<>>
    /\ events = <<>>
    /\ ret = NoCall

\* One Read call on the file: what it returns depends on no call before it.
NextRead ==
    ret = NoCall /\ \E o \in ReadOffsets(files[ReadPath]), l \in Limits : Read(S1, o, l)

SpecRead == InitRead /\ [][NextRead]_vars

----------------------------------------------------------------------------
(* The offset codec on its own *)

Nines(k) == [i \in 1..k |-> 9]

\* Byte positions: the small ones, and up to the largest int64.
Positions ==
    {IntToNum(i) : i \in 0..MaxPos}
    \cup {Num(FALSE, Nines(k)) : k \in {2, 9, 18}}
    \cup {Num(FALSE, <<1>> \o [i \in 1..k |-> 0]) : k \in {2, 9, 18}}
    \cup {Num(FALSE, [MaxInt64Mag EXCEPT ![19] = 6]), MaxInt64}

\* Tokens to decode: not only those the encoder makes.
Tokens ==
    OddTokens
    \cup {zeroOffset, <<"-">>, <<"-", "0">>, <<"0", "-", "5">>, <<"5", "x">>, <<"0", "5">>, <<"5", "0">>}
    \cup {NumText(MaxInt64), NumText(MinInt64),
          DigitText([MaxInt64Mag EXCEPT ![19] = 8]),
          <<"-">> \o DigitText([MinInt64Mag EXCEPT ![19] = 9])}

\* offsetFromInt(n), remembering the call before it.
Encode(n) ==
    /\ ret' = [op |-> "offsetFromInt", n |-> n, out |-> offsetFromInt(n),
               prev |-> IF ret.op = "offsetFromInt" THEN <<[n |-> ret.n, out |-> ret.out]>> ELSE <<>>]
    /\ UNCHANGED <<zeroOffset, watcher, mu, dirs, wl, gp, files, fileIndex, subscribers, chans, events>>

\* offsetToInt(o)
Decode(o) ==
    /\ ret' = [op |-> "offsetToInt", o |-> o, out |-> offsetToInt(o)]
    /\ UNCHANGED <<zeroOffset, watcher, mu, dirs, wl, gp, files, fileIndex, subscribers, chans, events>>

\* offsetToInt of the offset just encoded
DecodeEncoded ==
    /\ ret.op = "offsetFromInt"
    /\ ret' = [op |-> "roundTrip", n |-> ret.n, o |-> ret.out, out |-> offsetToInt(ret.out)]
    /\ UNCHANGED <<zeroOffset, watcher, mu, dirs, wl, gp, files, fileIndex, subscribers, chans, events>>

InitCodec ==
    /\ zeroOffset \in ZeroOffsets
    /\ files = <<>>
    /\ fileIndex = NewClaudeStorage(files)
    /\ dirs = WatchAtStartup(Dirs)
    /\ wl = Idle
    /\ watcher = NewWatcher
    /\ mu = Unlocked
    /\ gp = NoGetPath
    /\ subscribers = <<>>
    /\ chans = <<>>
    /\ events = <<>>
    /\ ret = NoCall

NextCodec ==
    \/ \E n \in Positions : Encode(n)
    \/ \E o \in Tokens : Decode(o)
    \/ DecodeEncoded

SpecCodec == InitCodec /\ [][NextCodec]_vars

----------------------------------------------------------------------------
(* What a file holds, said without the scanner *)

\* The positions just past each '\n' of data, in order; data starts at base.
RECURSIVE LineEnds(_, _)
LineEnds(data, base) ==
    IF data = <<>> THEN <<>>
    ELSE (IF Head(data) = LF THEN <<base + 1>> ELSE <<>>)
         \o LineEnds(Tail(data), base + Head(data).n)

\* The newline-terminated records of data, each without its '\n'.
RECURSIVE RecordsOf(_)
RecordsOf(data) ==
    LET ends == LineEnds(data, 0)
    IN  IF ends = <<>> THEN <<>>
        ELSE <<Take(data, ends[1] - 1)>> \o RecordsOf(Drop(data, ends[1]))

\* The bytes after the last '\n' of data.
LastPiece(data) ==
    LET ends == LineEnds(data, 0)
    IN  IF ends = <<>> THEN data ELSE Drop(data, ends[Len(ends)])

\* Every byte of data belongs to a newline-terminated record.
Terminated(data) == LastPiece(data) = <<>>

\* No line of data, the last piece included, is as long as the scanner's
\* maximum.
ShortLines(data) ==
    /\ \A i \in 1..Len(RecordsOf(data)) : Size(RecordsOf(data)[i]) < MaxScanTokenSize
    /\ Size(LastPiece(data)) < MaxScanTokenSize

\* The payload bytes of the first k records of recs.
RECURSIVE Payload(_, _)
Payload(recs, k) == IF k = 0 THEN 0 ELSE Size(recs[k]) + Payload(recs, k - 1)

\* The Read call that has just returned, in SpecRead.
ReadReturned == ret.op = "Read"

Content == files[ReadPath]

StartNum == offsetToInt(ret.offset)

\* The start as a position of the file, when it is one of the model's integers.
StartPos == NumToInt(StartNum)

StartInRange == ~StartNum.neg /\ IsSmall(StartNum)

\* The file from the start position on.
Rest == IF StartInRange THEN Drop(Content, StartPos) ELSE <<>>

DataOf(messages) == [i \in 1..Len(messages) |-> messages[i].Data]

----------------------------------------------------------------------------
(* Claims about Read, under SpecRead *)

\* C1: on a file of newline-terminated records (none as long as the maximum
\* line), a Read from a record boundary whose limit admits the payload of the
\* next k >= 1 records but not of k + 1 returns exactly those k records, in
\* order, and the next offset is the encoded position just past record k's
\* newline.
C1_BudgetAdmitsKRecords ==
    (ReadReturned /\ StartInRange /\ Terminated(Content) /\ ShortLines(Content)
       /\ (StartPos = 0 \/ \E i \in 1..Len(LineEnds(Content, 0)) : LineEnds(Content, 0)[i] = StartPos))
    => LET recs == RecordsOf(Rest)
       IN  \A k \in 1..(Len(recs) - 1) :
              (Payload(recs, k) <= ret.limit /\ Payload(recs, k + 1) > ret.limit)
              => /\ ret.result.err = ""
                 /\ DataOf(ret.result.Messages) = SubSeq(recs, 1, k)
                 /\ ret.result.NextOffset
                      = offsetFromInt(IntToNum(StartPos + Payload(recs, k) + k))

\* C2 as stated: whenever a record exists at or after the decoded start
\* position, Read returns at least one message, whatever the limit, and a next
\* offset beyond the start.
C2_AlwaysProgress ==
    (ReadReturned /\ StartInRange /\ LineEnds(Rest, 0) # <<>>)
    => /\ ret.result.err = ""
       /\ Len(ret.result.Messages) >= 1
       /\ NumLess(StartNum, offsetToInt(ret.result.NextOffset))

\* C2, amended: whenever a record exists at or after the decoded start
\* position and no line at or after it is as long as the maximum line, Read
\* returns at least one message, whatever the limit, and a next offset beyond
\* the start; with such a line Read may fail with a scan error instead, and it
\* fails in no other way.
C2_ProgressUnlessLineTooLong ==
    (ReadReturned /\ StartInRange /\ LineEnds(Rest, 0) # <<>>)
    => \/ /\ ret.result.err = ""
          /\ Len(ret.result.Messages) >= 1
          /\ NumLess(StartNum, offsetToInt(ret.result.NextOffset))
       \/ /\ ret.result.err = "scan"
          /\ ~ShortLines(Rest)

\* A Read with limit 0 of a record of one byte or more returned that record.
C2_Witness ==
    /\ ReadReturned /\ ret.limit = 0 /\ ret.result.err = ""
    /\ Len(ret.result.Messages) = 1
    /\ Size(ret.result.Messages[1].Data) > 0
    /\ LineEnds(Rest, 0) # <<>>

\* C3: a Read from offset 0 with a limit of at least the file's payload, on a
\* file of records R1..Rn (newline-terminated, none as long as the maximum
\* line) of total size S, returns R1..Rn in order and the next offset
\* encode(S).
C3_WholeFile ==
    (ReadReturned /\ StartNum = Zero /\ Terminated(Content) /\ ShortLines(Content)
       /\ Len(RecordsOf(Content)) >= 1
       /\ Payload(RecordsOf(Content), Len(RecordsOf(Content))) <= ret.limit)
    => /\ ret.result.err = ""
       /\ DataOf(ret.result.Messages) = RecordsOf(Content)
       /\ ret.result.NextOffset = offsetFromInt(IntToNum(Size(Content)))

\* C4: a Read that starts at the end of the file or beyond it succeeds with no
\* message, and a Read that returns no message returns as its next offset the
\* offset it was given, character for character.
C4_NoProgressKeepsOffset ==
    ReadReturned
    => /\ (~StartNum.neg /\ ~NumLess(StartNum, IntToNum(Size(Content))))
          => ret.result.err = "" /\ ret.result.Messages = <<>>
       /\ (ret.result.err = "" /\ ret.result.Messages = <<>>)
          => ret.result.NextOffset = ret.offset

\* A Read with no message whose offset is not what the encoder would make of
\* the position it decodes to.
C4_Witness ==
    /\ ReadReturned /\ ret.result.err = "" /\ ret.result.Messages = <<>>
    /\ ret.offset # offsetFromInt(StartNum)
    /\ StartInRange /\ StartPos = Size(Content) /\ Size(Content) > 0

\* C5: the offset of every message Read returns is the encoded position just
\* past that record's own newline: of the i-th newline at or after the start
\* for the i-th message; and no message's offset is beyond the file's size.
C5_MessageOffsetPastNewline ==
    (ReadReturned /\ ret.result.err = "")
    => LET ends == LineEnds(Rest, StartPos)
       IN  \A i \in 1..Len(ret.result.Messages) :
              /\ ~NumLess(IntToNum(Size(Content)), offsetToInt(ret.result.Messages[i].Offset))
              /\ i <= Len(ends)
                 => ret.result.Messages[i].Offset = offsetFromInt(IntToNum(ends[i]))

\* C6: Read returns no more messages than there are newlines at or after the
\* start: bytes at the end of the file that no newline ends yet are no message.
C6_CompleteRecordsOnly ==
    (ReadReturned /\ ret.result.err = "")
    => Len(ret.result.Messages) <= Len(LineEnds(Rest, 0))

----------------------------------------------------------------------------
(* Claims about the offset codec, under SpecCodec *)

\* C7: every encoded offset has exactly 20 characters, and of two positions
\* from 0 to the largest int64 the smaller one's offset is the smaller string.
C7_EncodeKeepsOrder ==
    ret.op = "offsetFromInt"
    => /\ Len(ret.out) = 20
       /\ \A i \in 1..Len(ret.prev) :
             /\ NumLess(ret.prev[i].n, ret.n) => StrLess(ret.prev[i].out, ret.out)
             /\ NumLess(ret.n, ret.prev[i].n) => StrLess(ret.out, ret.prev[i].out)

\* 10 was encoded after 9: more digits, a smaller first digit.
C7_Witness ==
    /\ ret.op = "offsetFromInt" /\ ret.n = IntToNum(10)
    /\ ret.prev # <<>> /\ ret.prev[1].n = IntToNum(9)
    /\ StrLess(ret.prev[1].out, ret.out)

\* C8: decoding the offset encoded from a position from 0 to the largest int64
\* gives that position back.
C8_RoundTrip ==
    ret.op = "roundTrip" => ret.out = ret.n

\* Position 0 came back from its offset of zeros, which was not the sentinel.
C8_Witness ==
    /\ ret.op = "roundTrip" /\ ret.n = Zero /\ ret.out = Zero
    /\ ret.o # zeroOffset /\ \A i \in 1..Len(ret.o) : ret.o[i] = "0"

\* A token that is the digits of a position from 0 to the largest int64.
WellFormed(o) ==
    /\ o # <<>>
    /\ \A i \in 1..Len(o) : IsDigit(o[i])
    /\ ~MagLess(MaxInt64Mag, StripZeros([i \in 1..Len(o) |-> DigitVal(o[i])]))

\* C9: a token that is not the digits of an int64 position (the sentinel, the
\* alias "-1", "", "-5", "x", twenty nines) decodes to 0, and no token decodes
\* to a negative position.
C9_LenientDecode ==
    ret.op = "offsetToInt"
    => /\ ~ret.out.neg
       /\ ~WellFormed(ret.o) => ret.out = Zero

----------------------------------------------------------------------------
(* Claims about the store, under Spec *)

MutatingOps == {"Create", "Append", "AppendFrom", "Delete"}

\* C10: a step in which Create, Append, AppendFrom or Delete returns, returns
\* the read-only error and leaves the index, the subscriber registry, the
\* channels and the files as they were.
C10_MutatingCallsRejected ==
    [][(ret'.op \in MutatingOps /\ ret' # ret)
         => /\ ret'.err = "ErrReadOnly"
            /\ UNCHANGED <<files, fileIndex, subscribers, chans, events>>]_vars

\* Delete returned for a stream that is indexed, has its file and a subscriber.
C10_Witness ==
    /\ ret.op = "Delete"
    /\ TrimSlash(ret.streamID) \in DOMAIN fileIndex
    /\ fileIndex[TrimSlash(ret.streamID)] \in DOMAIN files
    /\ Subs(TrimSlash(ret.streamID)) # <<>>

----------------------------------------------------------------------------
(* Claims about the index and the watcher, under SpecTree *)

ResolveOps == {"Head", "Read", "Subscribe"}

\* What the getPath of a returned Head, Read or Subscribe gave.
ResolveErr(r) == IF r.op = "Read" THEN r.result.err ELSE r.err

\* A file named <id>.jsonl exists somewhere under projectsDir.
FileNamed(fs, id) ==
    \E q \in ProjectPaths : q \in DOMAIN fs /\ q.name = id /\ q.ext = JSONL

\* C11: when Head, Read or Subscribe returns for an id whose file <id>.jsonl
\* exists at any depth under the projects root, getPath has not failed with
\* not-found and the index holds the id, with an existing file of that name
\* if the id was not in the map before; and getPath fails with not-found
\* exactly when the id was not in the map and no such file exists.
C11_ResolveFindsAnyDepth ==
    [][(ret'.op \in ResolveOps /\ ret' # ret)
         => LET id == TrimSlash(ret'.streamID)
            IN  /\ FileNamed(files, id)
                   => /\ ResolveErr(ret') # "ErrStreamNotFound"
                      /\ id \in DOMAIN fileIndex'
                      /\ id \notin DOMAIN fileIndex
                         => /\ fileIndex'[id] \in DOMAIN files
                            /\ fileIndex'[id].name = id
                /\ ResolveErr(ret') = "ErrStreamNotFound"
                   <=> (id \notin DOMAIN fileIndex /\ ~FileNamed(files, id))]_vars

\* A call resolved s1 to the file two levels down, in a directory made after
\* startup that the watcher does not watch: only the walk of getPath finds it.
C11_Witness ==
    /\ ret.op \in ResolveOps /\ TrimSlash(ret.streamID) = "s1"
    /\ ResolveErr(ret) # "ErrStreamNotFound"
    /\ <<"projects", "a", "b">> \in DOMAIN dirs /\ ~dirs[<<"projects", "a", "b">>]
    /\ "s1" \in DOMAIN fileIndex /\ fileIndex["s1"] = WalkOrder[2]

\* The step in which watchLoop takes the event at the head of the queue.
WatcherTakes == events # <<>> /\ events' = Tail(events)

\* C12: when watchLoop handles the write or create event of a .jsonl file,
\* every channel then registered for the stream (those registered before the
\* append among them) whose buffer is empty gets a notification; and every
\* notification put in a buffer for that event carries an offset at or past
\* the size the file had just after the append.
C12_AppendNotifies ==
    [][(WatcherTakes /\ FileEvent(Head(events)))
         => LET event == Head(events)
                subs == Subs(StreamOf(event.Name))
            IN  /\ \A i \in 1..Len(subs) :
                      chans[subs[i]].buf = <<>> => chans'[subs[i]].buf # <<>>
                /\ \A ch \in 1..Len(chans) :
                      chans'[ch].buf # chans[ch].buf
                      => ~NumLess(offsetToInt(chans'[ch].buf[1]), IntToNum(event.size))]_vars

\* C15: a step in which Read returns leaves the index and the files as they
\* were.
C15_ReadKeepsIndex ==
    [][(ret'.op = "Read" /\ ret' # ret)
         => fileIndex' = fileIndex /\ files' = files]_vars

\* C16: once the watcher has taken every event, every directory under the
\* projects root is watched, and every .jsonl file under it is in the index
\* under its base name.
C16_NewDirWatched ==
    events = <<>>
    => /\ \A d \in DOMAIN dirs : UnderProjects(d) => dirs[d]
       /\ \A q \in ProjectPaths : q \in DOMAIN files => BaseStreamID(q) \in DOMAIN fileIndex

\* C17: when watchLoop handles a write or create event of a .jsonl file that
\* is no longer there, no channel gets a notification.
C17_NoNotifyOnStatFailure ==
    [][(WatcherTakes /\ FileEvent(Head(events)) /\ Head(events).Name \notin DOMAIN files)
         => \A ch \in 1..Len(chans) : chans'[ch].buf = chans[ch].buf]_vars

\* C19: the index is a map from stream ids to paths, and no step takes an id
\* out of it.
C19_IndexKeepsIds ==
    [][/\ DOMAIN fileIndex \subseteq DOMAIN fileIndex'
       /\ \A id \in DOMAIN fileIndex' : fileIndex'[id] \in Paths]_vars

\* With every directory watched and every event taken, s1 is indexed at the
\* file two levels down while the file one level down exists, which a scan
\* at startup would have preferred: the path of s1 has been replaced.
C19_Witness ==
    /\ events = <<>>
    /\ \A d \in DOMAIN dirs : dirs[d]
    /\ WalkOrder[3] \in DOMAIN files
    /\ "s1" \in DOMAIN fileIndex /\ fileIndex["s1"] = WalkOrder[2]

----------------------------------------------------------------------------
(* Claims about the fan-out, under SpecFan *)

\* C13: watchLoop is never kept from its next send nor, when idle, from the
\* next event, whatever the subscribers' buffers hold; while it sends, the
\* channels it ranges over are those registered for the stream; and each send
\* fills the buffer of its channel if it was empty, leaves it as it was if it
\* was full, touches no other channel, and moves on to the next channel.
C13_FanOutNeverBlocks ==
    /\ [](wl.pc = "send" => ENABLED WatchSend)
    /\ []((wl.pc = "idle" /\ events # <<>>) => ENABLED WatchReceive)
    /\ [](wl.pc = "send" => wl.subs = Subs(wl.streamID))
    /\ [][(wl.pc = "send" /\ wl' # wl)
            => LET ch == wl.subs[wl.i]
               IN  /\ chans'[ch].buf = IF chans[ch].buf = <<>> THEN <<wl.tail>>
                                       ELSE chans[ch].buf
                   /\ \A c \in 1..Len(chans) : c # ch => chans'[c] = chans[c]
                   /\ wl' = IF wl.i < Len(wl.subs) THEN [wl EXCEPT !.i = @ + 1]
                            ELSE Idle]_vars

\* watchLoop has dropped the notification of the first subscriber, whose
\* buffer holds an older offset, and is about to send to the second, whose
\* buffer is empty.
C13_Witness ==
    /\ wl.pc = "send" /\ wl.i = 2
    /\ chans[wl.subs[1]].buf # <<>> /\ chans[wl.subs[1]].buf # <<wl.tail>>
    /\ chans[wl.subs[2]].buf = <<>>

\* C20: whatever is put in a subscriber's buffer is the offset watchLoop
\* computed for the event it is handling, so that a subscriber receives the
\* offsets in the order of the events; and, no file being ever removed or
\* cut, it is not below the offset put in that buffer before.
C20_OffsetsInOrder ==
    [][\A ch \in 1..Len(chans) :
          (chans'[ch].buf # chans[ch].buf /\ chans'[ch].buf # <<>>)
          => /\ wl.pc = "send" /\ chans'[ch].buf = <<wl.tail>>
             /\ chans[ch].last # <<>>
                => ~NumLess(offsetToInt(wl.tail), offsetToInt(chans[ch].last[1]))]_vars

----------------------------------------------------------------------------
(* Claims about the interleavings, under SpecRace *)

\* C14: watchLoop never sends on a closed channel; a channel whose
\* subscription is cancelled is out of the registry before it is closed; it
\* is closed by the one close of its goroutine, and stays closed.
C14_CancelClosesOnce ==
    /\ [](wl.pc # "panic")
    /\ [](\A ch \in 1..Len(chans) :
            /\ chans[ch].pc # "wait"
               => \A i \in 1..Len(Subs(chans[ch].id)) : Subs(chans[ch].id)[i] # ch
            /\ chans[ch].closed <=> chans[ch].pc = "done")
    /\ [][\A ch \in 1..Len(chans) :
            chans[ch].closed => chans'[ch].closed /\ chans'[ch].pc = "done"]_vars

\* A cancelled channel is out of the registry and not yet closed while
\* watchLoop sends to the other subscriber of its stream.
C14_Witness ==
    /\ wl.pc = "send"
    /\ \E ch \in 1..Len(chans) : chans[ch].pc = "close" /\ chans[ch].id = wl.streamID

\* C18: only the step in which watchLoop takes an event changes the path of
\* an id that is in the index: no step of getPath does.
C18_ResolveOnlyInserts ==
    [][\A id \in DOMAIN fileIndex :
          fileIndex'[id] # fileIndex[id] => WatcherTakes]_vars

----------------------------------------------------------------------------
(* A further claim about Read, under SpecRead *)

\* C27: in every result of a Read that succeeded, no message's offset decodes
\* to a position past the decoded tailOffset, and when there is a message the
\* nextOffset does not either.
C27_NextOffsetWithinTail ==
    (ReadReturned /\ ret.result.err = "")
    => LET tail == offsetToInt(ret.result.TailOffset)
       IN  /\ \A i \in 1..Len(ret.result.Messages) :
                 ~NumLess(tail, offsetToInt(ret.result.Messages[i].Offset))
           /\ Len(ret.result.Messages) > 0
              => ~NumLess(tail, offsetToInt(ret.result.NextOffset))

----------------------------------------------------------------------------
(* Further claims about the fan-out, under SpecFan *)

\* C21 as it is stated: at the end of the step in which watchLoop finishes
\* its fan-out for an event, the buffer of every subscriber registered for
\* the stream holds a notification.
C21_PendingAfterFanOut ==
    [][(wl.pc = "send" /\ wl'.pc = "idle")
         => \A i \in 1..Len(wl.subs) : chans'[wl.subs[i]].buf # <<>>]_vars

\* C21: after every send watchLoop attempts to a subscriber, dropped or not,
\* the buffer of that subscriber holds a notification; and a buffer that
\* holds one is emptied only by its subscriber receiving that notification.
C21_PendingUntilReceived ==
    /\ [][(wl.pc = "send" /\ wl' # wl) => chans'[wl.subs[wl.i]].buf # <<>>]_vars
    /\ [][\A ch \in 1..Len(chans) :
            (chans[ch].buf # <<>> /\ chans'[ch].buf = <<>>)
            => /\ ret'.op = "Receive"
               /\ ret'.ch = ch
               /\ ret'.offset = chans[ch].buf[1]]_vars

\* The send to the first subscriber was dropped, its buffer holding an older
\* offset, which the subscriber has received since: its buffer is empty while
\* watchLoop is about to send to the second subscriber.
C21_Witness ==
    /\ wl.pc = "send" /\ wl.i = 2
    /\ chans[wl.subs[1]].buf = <<>>
    /\ chans[wl.subs[1]].last # <<>> /\ chans[wl.subs[1]].last # <<wl.tail>>

----------------------------------------------------------------------------
(* A caller that reads, then subscribes where its Read ended, while the file
   is appended to *)

WakeContents == { <<>>, <<Run(1), LF>> }

InitWake ==
    /\ zeroOffset \in ZeroOffsets
    /\ \E content \in WakeContents : files = (ReadPath :> content)
    /\ dirs = WatchAtStartup(Dirs)
    /\ fileIndex = NewClaudeStorage(files)
    /\ wl = Idle
    /\ watcher = NewWatcher
    /\ mu = Unlocked
    /\ gp = NoGetPath
    /\ subscribers = <<>>
    /\ chans = <<>>
    /\ events = <<>>
    /\ ret = NoCall

\* The caller holds the result of its Read until it subscribes with the
\* nextOffset of that result; writes and watchLoop go on meanwhile.
NextWake ==
    \/ ret = NoCall /\ \E o \in {<<"-", "1">>, zeroOffset} : Read(S1, o, MaxLimit)
    \/ ret.op \in {"none", "Read"} /\ \E data \in WriteChunks :
          Room(data, MaxWakeBytes, MaxEvents) /\ FsWrite(ReadPath, data)
    \/ ret.op \in {"none", "Read"} /\ watchLoop
    \/ ret.op = "Read" /\ ret.result.err = "" /\ Len(chans) < MaxSubs
          /\ Subscribe(S1, ret.result.NextOffset)
    \/ ret = NoCall /\ \E ch \in 1..MaxSubs : Receive(ch)
    \/ Return

SpecWake == InitWake /\ [][NextWake]_vars

\* C28: when Subscribe has returned a channel for an offset that is behind
\* the size of the stream's file, and watchLoop has no event left to handle,
\* a notification is in the buffer of that channel: with no further write,
\* nothing would put one there later.
C28_NoLostWakeup ==
    ( /\ ret.op = "Subscribe" /\ ret.err = ""
      /\ events = <<>>
      /\ NumLess(offsetToInt(ret.offset), IntToNum(Size(files[ReadPath]))) )
    => chans[ret.ch].buf # <<>>

----------------------------------------------------------------------------
(* The store under ids and file names of every kind: ids that hold a glob
   metacharacter or a separator, a file _history.jsonl among the projects,
   .jsonl files in projects and in claudeDir *)

NameIDs ==
    { StreamID(FALSE, n) :
        n \in {"s1", "s2", HistoryID, "*", "s?", "../s1", "../../history", "b/s1"} }
    \cup {StreamID(TRUE, "s1")}

\* The trees the process may start on.
InitialNameFiles ==
    { <<>>,
      (historyPath :> <<LF>>),
      (historyPath :> <<LF>>) @@ (WalkOrder[1] :> <<LF>>),
      (WalkOrder[3] :> <<LF>>) }

InitNames ==
    /\ zeroOffset \in ZeroOffsets
    /\ files \in InitialNameFiles
    /\ dirs = WatchAtStartup(Dirs)
    /\ fileIndex = NewClaudeStorage(files)
    /\ wl = Idle
    /\ watcher = NewWatcher
    /\ mu = Unlocked
    /\ gp = NoGetPath
    /\ subscribers = <<>>
    /\ chans = <<>>
    /\ events = <<>>
    /\ ret = NoCall

NextNames ==
    \/ ret = NoCall /\ \E id \in NameIDs : HeadInfo(id)
    \/ ret = NoCall /\ \E id \in NameIDs : Read(id, <<"-", "1">>, MaxLimit)
    \/ ret = NoCall /\ \E path \in Paths :
          Room(<<Run(1)>>, MaxBytes, MaxEvents) /\ FsWrite(path, <<Run(1)>>)
    \/ ret = NoCall /\ watchLoop
    \/ Return

SpecNames == InitNames /\ [][NextNames]_vars

\* C24: for every id, the files the pattern of getPath matches are named
\* <id>.jsonl and lie in a directory just below projectsDir; and the path the
\* index holds for an id other than the reserved one has base name <id>.jsonl.
C24_GlobHitsLiteralName ==
    /\ \A sid \in NameIDs : \A path \in DOMAIN files :
          GlobHit(files, TrimSlash(sid), path)
          => /\ path.name = TrimSlash(sid) /\ path.ext = JSONL
             /\ Len(path.dir) = Len(projectsDir) + 1 /\ UnderProjects(path.dir)
    /\ \A id \in DOMAIN fileIndex \ {HistoryID} :
          fileIndex[id].name = id /\ fileIndex[id].ext = JSONL

\* C25: the index holds <claudeDir>/history.jsonl for the reserved id, always.
C25_HistoryEntryFixed ==
    HistoryID \in DOMAIN fileIndex /\ fileIndex[HistoryID] = historyPath

\* C26: every path the index holds for an id other than the reserved one, and
\* every path a Read of such an id has resolved, lies under projectsDir.
C26_PathsUnderProjects ==
    /\ \A id \in DOMAIN fileIndex \ {HistoryID} : UnderProjects(fileIndex[id].dir)
    /\ (ret.op = "Read" /\ ret.result.err = "" /\ TrimSlash(ret.streamID) # HistoryID)
       => UnderProjects(ret.path.dir)

----------------------------------------------------------------------------
(* watchLoop and the channels of the watcher: storage.go 93-134, 340-342.
   Each turn of the loop is one step here. *)

\* A file under a watched directory whose name does not end in .jsonl.
notesPath == Path(<<"projects", "a">>, "notes", ".txt")

LoopPaths == {WalkOrder[3], notesPath}

Returned == [pc |-> "returned"]

\* The library reports a watch error on watcher.Errors.
WatchError ==
    /\ "Errors" \notin watcher.closed
    /\ Len(watcher.Errors) < MaxErrors
    /\ watcher' = [watcher EXCEPT !.Errors = Append(@, "error")]
    /\ UNCHANGED <<zeroOffset, mu, files, fileIndex, subscribers, chans, events, ret, dirs, wl, gp>>

\* ClaudeStorage.Close (storage.go 340-342) has the library close
\* watcher.Events and watcher.Errors, one after the other in some order.
CloseChannel(c) ==
    /\ c \notin watcher.closed
    /\ watcher' = [watcher EXCEPT !.closed = @ \cup {c}]
    /\ UNCHANGED <<zeroOffset, mu, files, fileIndex, subscribers, chans, events, ret, dirs, wl, gp>>

\* case event, ok := <-s.watcher.Events with ok true (storage.go 98-127).
LoopEvent == wl = Idle /\ watchLoop

\* case event, ok := <-s.watcher.Events with ok false (storage.go 98-101).
LoopEventsClosed ==
    /\ wl = Idle
    /\ "Events" \in watcher.closed
    /\ wl' = Returned
    /\ UNCHANGED <<zeroOffset, watcher, mu, files, fileIndex, subscribers, chans, events, ret, dirs, gp>>

\* An error that is taken ends the loop as well.
LoopErrorReturns ==
    /\ wl = Idle
    /\ watcher.Errors # <<>>
    /\ watcher' = [watcher EXCEPT !.Errors = Tail(@)]
    /\ wl' = Returned
    /\ UNCHANGED <<zeroOffset, mu, files, fileIndex, subscribers, chans, events, ret, dirs, gp>>

\* case _, ok := <-s.watcher.Errors with ok true (storage.go 128-131): the
\* error is dropped.
LoopError ==
    /\ wl = Idle
    /\ watcher.Errors # <<>>
    /\ watcher' = [watcher EXCEPT !.Errors = Tail(@)]
    /\ UNCHANGED <<zeroOffset, mu, files, fileIndex, subscribers, chans, events, ret, dirs, wl, gp>>

\* case _, ok := <-s.watcher.Errors with ok false (storage.go 128-131).
LoopErrorsClosed ==
    /\ wl = Idle
    /\ "Errors" \in watcher.closed
    /\ watcher.Errors = <<>>
    /\ wl' = Returned
    /\ UNCHANGED <<zeroOffset, watcher, mu, files, fileIndex, subscribers, chans, events, ret, dirs, gp>>

InitLoop ==
    /\ zeroOffset \in ZeroOffsets
    /\ files \in {<<>>, (WalkOrder[3] :> <<>>)}
    /\ dirs = WatchAtStartup(Dirs)
    /\ fileIndex = NewClaudeStorage(files)
    /\ wl = Idle
    /\ watcher = NewWatcher
    /\ mu = Unlocked
    /\ gp = NoGetPath
    /\ subscribers = <<>>
    /\ chans = <<>>
    /\ events = <<>>
    /\ ret = NoCall

NextLoop ==
    \/ ret = NoCall /\ Len(chans) < MaxSubs /\ Subscribe(S1, <<"-", "1">>)
    \/ ret = NoCall /\ \E ch \in 1..MaxSubs : Receive(ch)
    \/ ret = NoCall /\ \E path \in LoopPaths :
          Room(<<Run(1)>>, MaxLoopBytes, MaxEvents) /\ FsWrite(path, <<Run(1)>>)
    \/ ret = NoCall /\ \E path \in LoopPaths :
          Room(<<>>, MaxLoopBytes, MaxEvents) /\ FsRemove(path)
    \/ ret = NoCall /\ WatchError
    \/ ret = NoCall /\ \E c \in {"Events", "Errors"} : CloseChannel(c)
    \/ ret = NoCall /\ LoopEvent
    \/ LoopError
    \/ LoopEventsClosed
    \/ LoopErrorsClosed
    \/ Return

\* The goroutine of watchLoop is scheduled, and its select, which chooses at
\* random among the cases that are ready, takes in the end a case that stays
\* ready.
SpecLoop ==
    /\ InitLoop /\ [][NextLoop]_vars
    /\ WF_vars(LoopError) /\ WF_vars(LoopEventsClosed) /\ WF_vars(LoopErrorsClosed)

\* watchLoop takes an error from watcher.Errors.
ErrorTaken == watcher.Errors # <<>> /\ watcher'.Errors = Tail(watcher.Errors)

\* C22: once watcher.Events or watcher.Errors is closed, watchLoop returns;
\* it returns in no other case; and a step in which it takes a watch error,
\* an event of a name that does not end in .jsonl or an event that is
\* neither a write nor a create leaves watchLoop running, the index as it
\* was and every channel as it was.
C22_LoopEndsOnClosedChannel ==
    /\ (watcher.closed # {}) ~> (wl = Returned)
    /\ [][(wl # Returned /\ wl' = Returned) => watcher.closed # {}]_vars
    /\ [][(ErrorTaken \/ (WatcherTakes /\ ~FileEvent(Head(events))))
            => wl' = Idle /\ fileIndex' = fileIndex /\ chans' = chans]_vars

\* watchLoop has returned on the closed watcher.Errors, with watcher.Events
\* open and an event waiting, and a subscriber registered.
C22_Witness ==
    /\ wl = Returned
    /\ watcher.closed = {"Errors"}
    /\ events # <<>>
    /\ Subs("s1") # <<>>

----------------------------------------------------------------------------
(* s.mu, a Lock, RLock, Unlock or RUnlock at a time: the initial scan, one
   caller of Head, Read or Subscribe, the cancellation goroutines and
   watchLoop.  A goroutine that asks for the lock waits until it is free. *)

Caller == <<"caller">>

Watch == <<"watchLoop">>

Canceller(ch) == <<"cancel", ch>>

\* The goroutines that hold s.mu, locked or read-locked.
Holders == mu.r \cup (IF mu.w = <<>> THEN {} ELSE {mu.w})

\* s.mu.Lock() and s.mu.RLock() go through.
CanLock == mu.w = <<>> /\ mu.r = {}

CanRLock == mu.w = <<>>

\* indexFiles, storage.go 75-84: the walk goes to its next entry; after the
\* last one NewClaudeStorage starts watchLoop and returns (storage.go 69-71).
ScanWalk ==
    /\ gp.pc = "scan"
    /\ IF gp.i > Len(WalkOrder)
       THEN gp' = NoGetPath /\ wl' = Idle
       ELSE /\ gp' = IF WalkOrder[gp.i] \in DOMAIN files /\ HasJSONLSuffix(WalkOrder[gp.i])
                     THEN [gp EXCEPT !.pc = "scanlock"]
                     ELSE [gp EXCEPT !.i = @ + 1]
            /\ UNCHANGED wl
    /\ UNCHANGED <<zeroOffset, watcher, mu, files, fileIndex, subscribers, chans, events, ret, dirs>>

\* indexFiles, storage.go 85.
ScanLock ==
    /\ gp.pc = "scanlock"
    /\ CanLock
    /\ mu' = [mu EXCEPT !.w = Caller]
    /\ gp' = [gp EXCEPT !.pc = "scanassign"]
    /\ UNCHANGED <<zeroOffset, watcher, files, fileIndex, subscribers, chans, events, ret, dirs, wl>>

\* indexFiles, storage.go 86-87.
ScanAssign ==
    /\ gp.pc = "scanassign"
    /\ fileIndex' = Put(fileIndex, BaseStreamID(WalkOrder[gp.i]), WalkOrder[gp.i])
    /\ mu' = [mu EXCEPT !.w = <<>>]
    /\ gp' = [gp EXCEPT !.pc = "scan", !.i = @ + 1]
    /\ UNCHANGED <<zeroOffset, watcher, files, subscribers, chans, events, ret, dirs, wl>>

\* Head, Read or Subscribe is called, and calls getPath (storage.go 158).
CallStart(op, streamID) ==
    /\ gp = NoGetPath
    /\ gp' = [pc |-> "rlock", op |-> op, id |-> TrimSlash(streamID), err |-> "",
              path |-> historyPath]
    /\ UNCHANGED <<zeroOffset, watcher, mu, files, fileIndex, subscribers, chans, events, ret, dirs, wl>>

\* getPath, storage.go 160.
GetPathRLock ==
    /\ gp.pc = "rlock"
    /\ CanRLock
    /\ mu' = [mu EXCEPT !.r = @ \cup {Caller}]
    /\ gp' = [gp EXCEPT !.pc = "lookup"]
    /\ UNCHANGED <<zeroOffset, watcher, files, fileIndex, subscribers, chans, events, ret, dirs, wl>>

\* A lookup that keeps the read lock.
GetPathLookupKeepsRLock ==
    /\ gp.pc = "lookup"
    /\ gp' = IF gp.id \in DOMAIN fileIndex
              THEN [gp EXCEPT !.pc = "found", !.path = fileIndex[gp.id]]
              ELSE [gp EXCEPT !.pc = "search"]
    /\ UNCHANGED <<zeroOffset, watcher, mu, files, fileIndex, subscribers, chans, events, ret, dirs, wl>>

\* getPath, storage.go 161-166: the lookup, and RUnlock.
GetPathRUnlock ==
    /\ gp.pc = "lookup"
    /\ mu' = [mu EXCEPT !.r = @ \ {Caller}]
    /\ gp' = IF gp.id \in DOMAIN fileIndex
              THEN [gp EXCEPT !.pc = "found", !.path = fileIndex[gp.id]]
              ELSE [gp EXCEPT !.pc = "search"]
    /\ UNCHANGED <<zeroOffset, watcher, files, fileIndex, subscribers, chans, events, ret, dirs, wl>>

\* getPath, storage.go 169-171 and 179-190: the glob and the walk.
GetPathGlobWalk ==
    LET GHit(q) == GlobHit(files, gp.id, q)
        WHit(q) == WalkHit(files, gp.id, q)
        g == FirstHit(GHit)
        w == FirstHit(WHit)
    IN  /\ gp.pc = "search"
        /\ gp' = IF g # 0 THEN [gp EXCEPT !.pc = "lock", !.path = TreeOrder[g]]
                  ELSE IF w # 0 THEN [gp EXCEPT !.pc = "lock", !.path = TreeOrder[w]]
                  ELSE [gp EXCEPT !.pc = "failed", !.err = "ErrStreamNotFound"]
        /\ UNCHANGED <<zeroOffset, watcher, mu, files, fileIndex, subscribers, chans, events, ret, dirs, wl>>

\* getPath, storage.go 172 and 191.
GetPathLock ==
    /\ gp.pc = "lock"
    /\ CanLock
    /\ mu' = [mu EXCEPT !.w = Caller]
    /\ gp' = [gp EXCEPT !.pc = "assign"]
    /\ UNCHANGED <<zeroOffset, watcher, files, fileIndex, subscribers, chans, events, ret, dirs, wl>>

\* getPath, storage.go 173-174 and 192-193.
GetPathAssign ==
    /\ gp.pc = "assign"
    /\ fileIndex' = Put(fileIndex, gp.id, gp.path)
    /\ mu' = [mu EXCEPT !.w = <<>>]
    /\ gp' = [gp EXCEPT !.pc = "found"]
    /\ UNCHANGED <<zeroOffset, watcher, files, subscribers, chans, events, ret, dirs, wl>>

\* The call returns the error of getPath (storage.go 223-225, 241-243, 313-315).
CallFailed ==
    /\ gp.pc = "failed"
    /\ gp' = NoGetPath
    /\ UNCHANGED <<zeroOffset, watcher, mu, files, fileIndex, subscribers, chans, events, ret, dirs, wl>>

\* Head stats the file (storage.go 227-235); Read opens, seeks, stats and scans
\* it (storage.go 245-304).
CallFileIO ==
    /\ gp.pc = "found" /\ gp.op \in {"Head", "Read"}
    /\ gp' = NoGetPath
    /\ UNCHANGED <<zeroOffset, watcher, mu, files, fileIndex, subscribers, chans, events, ret, dirs, wl>>

\* Subscribe, storage.go 317-319.
SubscribeLock ==
    /\ gp.pc = "found" /\ gp.op = "Subscribe"
    /\ CanLock
    /\ mu' = [mu EXCEPT !.w = Caller]
    /\ gp' = [gp EXCEPT !.pc = "register"]
    /\ UNCHANGED <<zeroOffset, watcher, files, fileIndex, subscribers, chans, events, ret, dirs, wl>>

\* Subscribe, storage.go 320-337.
SubscribeRegister ==
    /\ gp.pc = "register"
    /\ chans' = Append(chans, NewChan(gp.id))
    /\ subscribers' = Put(subscribers, gp.id, Append(Subs(gp.id), Len(chans) + 1))
    /\ mu' = [mu EXCEPT !.w = <<>>]
    /\ gp' = NoGetPath
    /\ UNCHANGED <<zeroOffset, watcher, files, fileIndex, events, ret, dirs, wl>>

\* The cancellation goroutine, storage.go 324: <-ctx.Done() returns.
CancelDone(ch) ==
    /\ ch \in 1..Len(chans)
    /\ chans[ch].pc = "wait"
    /\ chans' = [chans EXCEPT ![ch].pc = "lock"]
    /\ UNCHANGED <<zeroOffset, watcher, mu, files, fileIndex, subscribers, events, ret, dirs, wl, gp>>

\* storage.go 325.
CancelLock(ch) ==
    /\ ch \in 1..Len(chans)
    /\ chans[ch].pc = "lock"
    /\ CanLock
    /\ mu' = [mu EXCEPT !.w = Canceller(ch)]
    /\ chans' = [chans EXCEPT ![ch].pc = "remove"]
    /\ UNCHANGED <<zeroOffset, watcher, files, fileIndex, subscribers, events, ret, dirs, wl, gp>>

\* storage.go 326-333.
CancelUnlock(ch) ==
    /\ ch \in 1..Len(chans)
    /\ chans[ch].pc = "remove"
    /\ subscribers' = Put(subscribers, chans[ch].id, RemoveFirst(Subs(chans[ch].id), ch))
    /\ mu' = [mu EXCEPT !.w = <<>>]
    /\ chans' = [chans EXCEPT ![ch].pc = "close"]
    /\ UNCHANGED <<zeroOffset, watcher, files, fileIndex, events, ret, dirs, wl, gp>>

\* watchLoop, storage.go 98-108: an event is received.
LoopReceive ==
    /\ wl = Idle
    /\ events # <<>>
    /\ events' = Tail(events)
    /\ LET event == Head(events)
       IN  wl' = IF ~FileEvent(event) THEN Idle
                 ELSE [pc |-> IF event.Name = historyPath THEN "stat" ELSE "lock",
                       streamID |-> StreamOf(event.Name), name |-> event.Name]
    /\ UNCHANGED <<zeroOffset, watcher, mu, files, fileIndex, subscribers, chans, ret, dirs, gp>>

\* storage.go 109.
LoopLock ==
    /\ wl.pc = "lock"
    /\ CanLock
    /\ mu' = [mu EXCEPT !.w = Watch]
    /\ wl' = [wl EXCEPT !.pc = "assign"]
    /\ UNCHANGED <<zeroOffset, watcher, files, fileIndex, subscribers, chans, events, ret, dirs, gp>>

\* storage.go 110-111.
LoopAssign ==
    /\ wl.pc = "assign"
    /\ fileIndex' = Put(fileIndex, wl.streamID, wl.name)
    /\ mu' = [mu EXCEPT !.w = <<>>]
    /\ wl' = [wl EXCEPT !.pc = "stat"]
    /\ UNCHANGED <<zeroOffset, watcher, files, subscribers, chans, events, ret, dirs, gp>>

\* storage.go 115: getTailOffset stats the file.
LoopStat ==
    /\ wl.pc = "stat"
    /\ wl' = [pc |-> "rlock", streamID |-> wl.streamID,
              tail |-> getTailOffset(files, wl.name).offset]
    /\ UNCHANGED <<zeroOffset, watcher, mu, files, fileIndex, subscribers, chans, events, ret, dirs, gp>>

\* storage.go 118-119.
LoopRLock ==
    /\ wl.pc = "rlock"
    /\ CanRLock
    /\ mu' = [mu EXCEPT !.r = @ \cup {Watch}]
    /\ wl' = [pc |-> "send", streamID |-> wl.streamID, tail |-> wl.tail,
              subs |-> Subs(wl.streamID), i |-> 1]
    /\ UNCHANGED <<zeroOffset, watcher, files, fileIndex, subscribers, chans, events, ret, dirs, gp>>

\* storage.go 119-124: one turn of the range.
LoopSend ==
    /\ wl.pc = "send"
    /\ wl.i <= Len(wl.subs)
    /\ LET ch == wl.subs[wl.i]
       IN  IF chans[ch].closed
           THEN wl' = [pc |-> "panic"] /\ UNCHANGED chans
           ELSE /\ chans' = [chans EXCEPT ![ch] = TrySend(chans[ch], wl.tail)]
                /\ wl' = [wl EXCEPT !.i = @ + 1]
    /\ UNCHANGED <<zeroOffset, watcher, mu, files, fileIndex, subscribers, events, ret, dirs, gp>>

\* storage.go 125.
LoopRUnlock ==
    /\ wl.pc = "send"
    /\ wl.i > Len(wl.subs)
    /\ mu' = [mu EXCEPT !.r = @ \ {Watch}]
    /\ wl' = Idle
    /\ UNCHANGED <<zeroOffset, watcher, files, fileIndex, subscribers, chans, events, ret, dirs, gp>>

\* NewClaudeStorage up to its call of indexFiles (storage.go 44-64), on a
\* tree that has the files of conversation s1 or none.
InitLock ==
    /\ zeroOffset \in ZeroOffsets
    /\ files \in {<<>>, (WalkOrder[2] :> <<>>) @@ (WalkOrder[3] :> <<>>)}
    /\ dirs = WatchAtStartup(Dirs)
    /\ fileIndex = Put(<<>>, HistoryID, historyPath)
    /\ wl = [pc |-> "unstarted"]
    /\ watcher = NewWatcher
    /\ mu = Unlocked
    /\ gp = [pc |-> "scan", i |-> 1]
    /\ subscribers = <<>>
    /\ chans = <<>>
    /\ events = <<>>
    /\ ret = NoCall

NextLock ==
    \/ ScanWalk
    \/ ScanLock
    \/ ScanAssign
    \/ \E op \in {"Head", "Read"} : CallStart(op, S1)
    \/ Len(chans) < MaxSubs /\ CallStart("Subscribe", S1)
    \/ GetPathRLock
    \/ GetPathRUnlock
    \/ GetPathGlobWalk
    \/ GetPathLock
    \/ GetPathAssign
    \/ CallFailed
    \/ CallFileIO
    \/ SubscribeLock
    \/ SubscribeRegister
    \/ \E ch \in 1..MaxSubs : CancelDone(ch)
    \/ \E ch \in 1..MaxSubs : CancelLock(ch)
    \/ \E ch \in 1..MaxSubs : CancelUnlock(ch)
    \/ \E ch \in 1..MaxSubs : CancelClose(ch)
    \/ \E path \in SessionPaths :
          Room(<<Run(1)>>, MaxLockBytes, MaxEvents) /\ FsWrite(path, <<Run(1)>>)
    \/ LoopReceive
    \/ LoopLock
    \/ LoopAssign
    \/ LoopStat
    \/ LoopRLock
    \/ LoopSend
    \/ LoopRUnlock

SpecLock == InitLock /\ [][NextLock]_vars

\* The number of keys at which two maps differ.
Changed(m, n) ==
    Cardinality({k \in DOMAIN m \cup DOMAIN n :
                   k \notin DOMAIN m \/ k \notin DOMAIN n \/ m[k] # n[k]})

\* C23: the steps that touch the filesystem (the walk of the initial scan,
\* the glob and the walk of getPath, the stat of Head, the file reads of
\* Read, the stat of watchLoop) and the steps that wait on a channel
\* (watchLoop for an event, a cancellation goroutine for its context) are
\* made by a goroutine that does not hold s.mu; a goroutine that holds the
\* lock gives it back in its next step, in which at most one entry of one of
\* the two maps changes and nothing else of the store; s.mu is never locked
\* while it is read-locked; and every goroutine that holds s.mu, locked or
\* read-locked, has a step it can make, so that none waits for ever.
C23_LockDiscipline ==
    /\ [][(gp' # gp /\ ( \/ gp.pc \in {"scan", "search"}
                         \/ (gp.pc = "found" /\ gp.op \in {"Head", "Read"}) ))
            => Caller \notin Holders]_vars
    /\ [][(wl' # wl /\ wl.pc \in {"idle", "stat"}) => Watch \notin Holders]_vars
    /\ [][\A ch \in 1..Len(chans) :
            (chans[ch].pc = "wait" /\ chans'[ch].pc # "wait")
            => Canceller(ch) \notin Holders]_vars
    /\ [][(mu.w # <<>> /\ mu' # mu)
            => /\ mu' = Unlocked
               /\ Changed(fileIndex, fileIndex') + Changed(subscribers, subscribers') <= 1
               /\ UNCHANGED <<files, events, dirs, watcher>>
               /\ \A ch \in 1..Len(chans) :
                     chans'[ch].buf = chans[ch].buf /\ chans'[ch].closed = chans[ch].closed]_vars
    /\ [](mu.w # <<>> => mu.r = {})
    /\ [](mu.w = Caller
            => ENABLED ScanAssign \/ ENABLED GetPathAssign \/ ENABLED SubscribeRegister)
    /\ [](mu.w = Watch => ENABLED LoopAssign)
    /\ [](\A ch \in 1..Len(chans) : mu.w = Canceller(ch) => ENABLED CancelUnlock(ch))
    /\ [](Caller \in mu.r => ENABLED GetPathRUnlock)
    /\ [](Watch \in mu.r => ENABLED LoopSend \/ ENABLED LoopRUnlock)

\* A cancellation goroutine waits to lock s.mu while watchLoop, read-locked,
\* is about to send to a subscriber.
C23_Witness ==
    /\ \E ch \in 1..Len(chans) : chans[ch].pc = "lock"
    /\ Watch \in mu.r
    /\ wl.pc = "send" /\ wl.i <= Len(wl.subs)

====
